---- MODULE Spec2Model ----
(***************************************************************************)
(* Model of splittt's main (src/main.rs): load a paginated document,       *)
(* resolve the splitting directive to a chunk size, then clone / delete /  *)
(* save one chunk per stride of the page space.                            *)
(*                                                                         *)
(* Machine integers are scaled: usize has WordBits bits, u32 has U32Bits   *)
(* bits.  The page count of a document that was loaded is small against    *)
(* the word range (lopdf numbers pages with u32 and holds every page in    *)
(* memory), the command-line numbers are any usize.                        *)
(***************************************************************************)
EXTENDS Integers, Sequences, FiniteSets, TLC

WordBits == 4
U32Bits == 3
MaxPages == 6

DefaultNumChunks == 3

RECURSIVE Pow2(_)
Pow2(n) == IF n = 0 THEN 1 ELSE 2 * Pow2(n - 1)

MaxWord == Pow2(WordBits) - 1

Min(a, b) == IF a <= b THEN a ELSE b

\* Mathematical ceiling of a / b, b >= 1 (unbounded integers).
CeilDiv(a, b) == (a + b - 1) \div b

SetOf(s) == {s[i] : i \in 1..Len(s)}

VARIABLES
    input_file,       \* pages of the file at args.input, by original page number
    args_mode,        \* args.mode
    args_chunk_size,  \* args.chunk_size
    args_num_chunks,  \* args.num_chunks : Option<usize>
    pc,               \* position in main / its outcome
    doc,              \* the loaded source document
    num_pages,        \* doc.get_pages().len()
    chunk_size,       \* the resolved chunk size
    start_page,       \* next item of (0..num_pages).step_by(chunk_size)
    chunk_index,      \* enumerate() counter
    extracted,        \* chunks whose working copy was cut (clone + delete_pages)
    written           \* chunks saved to the output directory, in write order

vars == <<input_file, args_mode, args_chunk_size, args_num_chunks, pc, doc,
          num_pages, chunk_size, start_page, chunk_index, extracted, written>>

SplitMode == {"NumChunks", "PageSize"}

None == [some |-> FALSE, val |-> 0]
Some(v) == [some |-> TRUE, val |-> v]

\* Option::unwrap_or
UnwrapOr(o, d) == IF o.some THEN o.val ELSE d

\* a..=b as a Vec
RangeInclusive(a, b) == IF a > b THEN << >> ELSE [i \in 1..(b - a + 1) |-> a + i - 1]

\* usize as u32
AsU32(x) == x % Pow2(U32Bits)

\* Outcomes of an integer + or - of the given width: the value when it is in
\* range; out of range a build with overflow checks panics and a build
\* without them wraps.
Value(v) == [panic |-> FALSE, val |-> v]
Panic == [panic |-> TRUE, val |-> 0]
ArithOutcomes(v, bits) ==
    IF v >= 0 /\ v < Pow2(bits) THEN {Value(v)} ELSE {Panic, Value(v % Pow2(bits))}

\* (num_pages + num_chunks - 1) / num_chunks in usize
ChunkSizeOutcomes(np, nc) ==
    LET sums == ArithOutcomes(np + nc, WordBits)
        diffs == UNION {IF s.panic THEN {Panic} ELSE ArithOutcomes(s.val - 1, WordBits) : s \in sums}
    IN  {IF d.panic THEN Panic ELSE Value(d.val \div nc) : d \in diffs}

\* (start_page + chunk_size).min(num_pages)
EndPageOutcomes_short(sp, cs, np) ==
    {IF s.panic THEN Panic ELSE Value(Min(s.val - 1, np)) : s \in ArithOutcomes(sp + cs, WordBits)}
EndPageOutcomes(sp, cs, np) ==
    {IF s.panic THEN Panic ELSE Value(Min(s.val, np)) : s \in ArithOutcomes(sp + cs, WordBits)}

\* (start_page as u32 + 1..=end_page as u32).collect()
PagesToKeepOutcomes(sp, ep) ==
    {IF s.panic THEN [panic |-> TRUE, val |-> << >>]
                 ELSE [panic |-> FALSE, val |-> RangeInclusive(s.val, AsU32(ep))]
       : s \in ArithOutcomes(AsU32(sp) + 1, U32Bits)}

\* (1..=num_pages as u32).collect()
AllPages(np) == RangeInclusive(1, AsU32(np))

\* all_pages.into_iter().filter(|p| !pages_to_keep.contains(p)).collect()
PagesToDelete_keepFirst(all, keep) == SelectSeq(all, LAMBDA p : p \notin SetOf(keep) /\ p # 1)
PagesToDelete(all, keep) == SelectSeq(all, LAMBDA p : p \notin SetOf(keep))

\* Document::delete_pages: drops the pages at the given 1-based page numbers
\* of the document it is called on.
DeletePages(d, nums) ==
    LET F[i \in 0..Len(d)] ==
            IF i = 0 THEN << >>
            ELSE IF i \in SetOf(nums) THEN F[i - 1] ELSE Append(F[i - 1], d[i])
    IN  F[Len(d)]

\* let mut chunk_doc = doc.clone(); chunk_doc.delete_pages(&pages_to_delete):
\* the source and the working copy after the two statements.
ExtractChunk_inplace(d, del) == [source |-> DeletePages(d, del), chunk |-> DeletePages(d, del)]
ExtractChunk(d, del) == [source |-> d, chunk |-> DeletePages(d, del)]

\* args.output.join(format!("chunk_{}.pdf", chunk_index + 1))
OutputPath(ci) == <<"chunk_", ci + 1, ".pdf">>

\* chunk_doc.save(&output_path)?
AfterSave_ignored(ok) == "loop"
AfterSave(ok) == IF ok THEN "loop" ELSE "err_write"

\* StepBy<Range<usize>>::next: the item after sp, num_pages when exhausted.
StepByNext(sp, cs, np) == IF cs >= np - sp THEN np ELSE sp + cs

Init ==
    /\ input_file \in {RangeInclusive(1, p) : p \in 0..MaxPages}
    /\ args_mode \in SplitMode
    /\ args_chunk_size \in 0..MaxWord
    /\ args_num_chunks \in {None} \cup {Some(v) : v \in 0..MaxWord}
    /\ pc = "load"
    /\ doc = << >>
    /\ num_pages = 0
    /\ chunk_size = 0
    /\ start_page = 0
    /\ chunk_index = 0
    /\ extracted = << >>
    /\ written = << >>

\* let doc = Document::load(&args.input)?; let num_pages = doc.get_pages().len();
Load ==
    /\ pc = "load"
    /\ \E ok \in BOOLEAN :
         IF ok
         THEN /\ doc' = input_file
              /\ num_pages' = Len(input_file)
              /\ pc' = "create_dir"
         ELSE /\ pc' = "err_load"
              /\ UNCHANGED <<doc, num_pages>>
    /\ UNCHANGED <<input_file, args_mode, args_chunk_size, args_num_chunks,
                   chunk_size, start_page, chunk_index, extracted, written>>

\* fs::create_dir_all(&args.output)?
CreateDir ==
    /\ pc = "create_dir"
    /\ \E ok \in BOOLEAN : pc' = IF ok THEN "resolve" ELSE "err_io"
    /\ UNCHANGED <<input_file, args_mode, args_chunk_size, args_num_chunks, doc,
                   num_pages, chunk_size, start_page, chunk_index, extracted, written>>

\* let chunk_size = match args.mode { ... }
Resolve ==
    /\ pc = "resolve"
    /\ IF args_mode = "PageSize"
       THEN /\ chunk_size' = args_chunk_size
            /\ pc' = "step_by"
       ELSE LET num_chunks == UnwrapOr(args_num_chunks, DefaultNumChunks)
            IN  IF num_chunks = 0
                THEN /\ pc' = "err_invalid"
                     /\ UNCHANGED chunk_size
                ELSE \E r \in ChunkSizeOutcomes(num_pages, num_chunks) :
                       IF r.panic
                       THEN /\ pc' = "panic"
                            /\ UNCHANGED chunk_size
                       ELSE /\ chunk_size' = r.val
                            /\ pc' = "step_by"
    /\ UNCHANGED <<input_file, args_mode, args_chunk_size, args_num_chunks, doc,
                   num_pages, start_page, chunk_index, extracted, written>>

\* (0..num_pages).step_by(chunk_size).enumerate(): step_by asserts step != 0
StepBy ==
    /\ pc = "step_by"
    /\ pc' = IF chunk_size = 0 THEN "panic" ELSE "loop"
    /\ start_page' = 0
    /\ chunk_index' = 0
    /\ UNCHANGED <<input_file, args_mode, args_chunk_size, args_num_chunks, doc,
                   num_pages, chunk_size, extracted, written>>

\* One pass of the body of the for loop.
LoopBody ==
    /\ pc = "loop"
    /\ start_page < num_pages
    /\ \E e \in EndPageOutcomes(start_page, chunk_size, num_pages), save_ok \in BOOLEAN :
         IF e.panic
         THEN /\ pc' = "panic"
              /\ UNCHANGED <<doc, start_page, chunk_index, extracted, written>>
         ELSE \E k \in PagesToKeepOutcomes(start_page, e.val) :
                IF k.panic
                THEN /\ pc' = "panic"
                     /\ UNCHANGED <<doc, start_page, chunk_index, extracted, written>>
                ELSE LET end_page == e.val
                         pages_to_keep == k.val
                         all_pages == AllPages(num_pages)
                         pages_to_delete == PagesToDelete(all_pages, pages_to_keep)
                         x == ExtractChunk(doc, pages_to_delete)
                         chunk == [index |-> chunk_index + 1,
                                   path |-> OutputPath(chunk_index),
                                   start |-> start_page + 1,
                                   end |-> end_page,
                                   delete |-> pages_to_delete,
                                   pages |-> x.chunk]
                     IN  /\ doc' = x.source
                         /\ extracted' = Append(extracted, chunk)
                         /\ written' = IF save_ok THEN Append(written, chunk) ELSE written
                         /\ pc' = AfterSave(save_ok)
                         /\ IF pc' = "loop"
                            THEN /\ start_page' = StepByNext(start_page, chunk_size, num_pages)
                                 /\ chunk_index' = chunk_index + 1
                            ELSE UNCHANGED <<start_page, chunk_index>>
    /\ UNCHANGED <<input_file, args_mode, args_chunk_size, args_num_chunks,
                   num_pages, chunk_size>>

\* The iterator is exhausted: Ok(())
Return ==
    /\ pc = "loop"
    /\ start_page >= num_pages
    /\ pc' = "done"
    /\ UNCHANGED <<input_file, args_mode, args_chunk_size, args_num_chunks, doc,
                   num_pages, chunk_size, start_page, chunk_index, extracted, written>>

Next == Load \/ CreateDir \/ Resolve \/ StepBy \/ LoopBody \/ Return

Spec == Init /\ [][Next]_vars

(***************************************************************************)
(* Properties                                                              *)
(***************************************************************************)

\* The directive as the planner sees it.
NumChunksArg == UnwrapOr(args_num_chunks, DefaultNumChunks)
FixedSizeValid == args_mode = "PageSize" /\ args_chunk_size >= 1
ChunkCountValid == args_mode = "NumChunks" /\ NumChunksArg >= 1
ValidDirective == FixedSizeValid \/ ChunkCountValid

\* The directive has been resolved (or resolving it ended the run).
Resolved == pc \in {"step_by", "loop", "done", "err_write", "err_invalid", "panic"}
\* The run is over and no collaborator call (load, mkdir, save) failed.
Ended == pc \in {"done", "err_invalid", "panic"}

\* The ranges r[1..], in order, tile 1..p from page 1 on without gap, overlap
\* or empty range.
Contiguous(r) ==
    /\ \A i \in 1..Len(r) : r[i].start <= r[i].end
    /\ Len(r) >= 1 => r[1].start = 1
    /\ \A i \in 2..Len(r) : r[i].start = r[i - 1].end + 1
IsPartition(r, p) ==
    /\ Contiguous(r)
    /\ Len(r) >= 1
    /\ r[Len(r)].end = p
    /\ \A q \in 1..p : Cardinality({i \in 1..Len(r) : q \in SetOf(r[i].pages)}) = 1

\* C1: for P >= 1 and a valid directive the ranges of the chunking loop, in
\* emission order, are an exact partition of 1..P: they start at page 1, each
\* starts right after the previous one, none is empty, and when the run is
\* over the last ends at P and every page is retained by exactly one chunk.
C1_PartitionOfPages ==
    (num_pages >= 1 /\ ValidDirective /\ Resolved) =>
        /\ Contiguous(extracted)
        /\ Ended => IsPartition(extracted, num_pages)

\* C2: FixedSize(n), n >= 1, over P >= 1 pages gives exactly ceil(P/n)
\* chunks, all but the last of n pages, the last of P - n*(chunks-1) pages;
\* n > P gives the single chunk 1..P.
C2_FixedSizeChunks ==
    (num_pages >= 1 /\ FixedSizeValid /\ Resolved) =>
        LET n == args_chunk_size
            chunks == CeilDiv(num_pages, n)
        IN  /\ Len(written) <= chunks
            /\ \A i \in 1..Len(written) :
                 Len(written[i].pages) = IF i < chunks THEN n ELSE num_pages - n * (chunks - 1)
            /\ Ended => Len(written) = chunks
            /\ (Ended /\ n > num_pages) =>
                 /\ Len(written) = 1
                 /\ written[1].pages = RangeInclusive(1, num_pages)
C2_Witness ==
    /\ pc = "done" /\ FixedSizeValid
    /\ args_chunk_size = 2 /\ num_pages = 5
    /\ Len(written) = 3 /\ Len(written[3].pages) = 1

\* C3: in num-chunks mode a run for k >= 1 chunks over P >= 1 pages writes
\* exactly k chunk files.
C3_WritesRequestedCount ==
    (num_pages >= 1 /\ ChunkCountValid /\ pc = "done") => Len(written) = NumChunksArg

\* C4: ChunkCount(k), k >= 1, over P >= 1 pages gives exactly
\* ceil(P / ceil(P/k)) chunks, never more than k.
C4_ChunkCountChunks ==
    (num_pages >= 1 /\ ChunkCountValid /\ Ended) =>
        /\ Len(written) = CeilDiv(num_pages, CeilDiv(num_pages, NumChunksArg))
        /\ Len(written) <= NumChunksArg

\* C5: a directive that resolves to chunk size zero (ChunkCount(0), or page
\* size 0) on a loaded document ends the run in the InvalidDirective error,
\* an error value and not a crash, with no chunk extracted or written.
ZeroDirective ==
    \/ args_mode = "NumChunks" /\ NumChunksArg = 0
    \/ args_mode = "PageSize" /\ args_chunk_size = 0
C5_ZeroIsInvalidDirective ==
    (ZeroDirective /\ Resolved) =>
        /\ pc # "panic"
        /\ extracted = << >> /\ written = << >>
        /\ Ended => pc = "err_invalid"

\* C6: a document of zero pages with a valid directive ends in success with
\* zero chunks (the code has no EmptyDocument outcome), never in another
\* failure, and writes no chunk.
C6_EmptyDocument ==
    (num_pages = 0 /\ ValidDirective /\ Resolved) =>
        /\ pc \in {"step_by", "loop", "done"}
        /\ extracted = << >> /\ written = << >>

\* C7: extraction never changes the source: after any number of extractions
\* the source holds all P pages, and the pages of a chunk's working copy are
\* those of the original minus that chunk's own deletion set, whatever was
\* extracted before.
C7_SourceUntouched ==
    pc \notin {"load", "err_load"} =>
        /\ doc = input_file
        /\ Len(doc) = num_pages
        /\ \A i \in 1..Len(extracted) :
             extracted[i].pages = DeletePages(input_file, extracted[i].delete)
C7_Witness ==
    /\ Len(extracted) >= 3
    /\ doc = input_file
    /\ extracted[3].pages # << >>

\* The i-th range of the plan for p pages in strides of cs.
PlannedStart(i, cs) == (i - 1) * cs + 1
PlannedEnd(i, cs, p) == Min(i * cs, p)

\* C8: chunks are written one at a time in increasing index order to
\* chunk_<index>; when saving chunk N fails the run ends in error with chunks
\* 1..N-1 on disk with their planned ranges and nothing of index > N is
\* extracted or written afterwards; when nothing fails every planned chunk
\* has been written exactly once at the successful return.
C8_State ==
    /\ \A i \in 1..Len(written) :
         /\ written[i] = extracted[i]
         /\ written[i].index = i
         /\ written[i].path = <<"chunk_", i, ".pdf">>
         /\ written[i].start = PlannedStart(i, chunk_size)
         /\ written[i].end = PlannedEnd(i, chunk_size, num_pages)
    /\ Len(extracted) = Len(written) + (IF pc = "err_write" THEN 1 ELSE 0)
    /\ pc = "err_write" => extracted[Len(extracted)].index = Len(written) + 1
    /\ pc = "done" => Len(written) = CeilDiv(num_pages, chunk_size)
C8_AllOrAbortAtFirstFailure ==
    /\ []C8_State
    /\ [][pc = "err_write" => UNCHANGED vars]_vars
C8_Witness ==
    /\ pc = "err_write"
    /\ Len(written) = 2
    /\ Len(extracted) = 3
    /\ extracted[3].end < num_pages

\* C9: for every planned chunk (start, end) of a P-page document the pages
\* handed to delete_pages are exactly 1..P minus start..end, and the working
\* copy that is saved holds exactly the pages start..end in order and is not
\* empty.
C9_DeletionIsComplement ==
    \A i \in 1..Len(extracted) :
        LET c == extracted[i]
        IN  /\ SetOf(c.delete) = (1..num_pages) \ (c.start..c.end)
            /\ SetOf(c.delete) \cap (c.start..c.end) = {}
            /\ SetOf(c.delete) \cup (c.start..c.end) = 1..num_pages
            /\ c.pages = RangeInclusive(c.start, c.end)
            /\ c.pages # << >>
C9_Witness ==
    /\ Len(written) >= 2
    /\ written[2].start > 1
    /\ written[2].end < num_pages
    /\ written[2].end > written[2].start
    /\ Len(written[2].delete) = num_pages - 2

\* C10: for P >= 1 and k >= 1 the chunk size computed in usize as
\* (P + k - 1) / k is ceil(P/k), at least 1: the sum never overflows and the
\* stride of the loop is never zero.
C10_ChunkSizeIsCeil ==
    (num_pages >= 1 /\ ChunkCountValid /\ Resolved) =>
        /\ pc # "panic"
        /\ chunk_size = CeilDiv(num_pages, NumChunksArg)
        /\ chunk_size >= 1
====
